---- MODULE Spec2Model ----
(***************************************************************************)
(* ast-grep MCP server: the process invoker and result classifier          *)
(* (src/src/command.rs), the match formatter (src/src/format.rs) and the   *)
(* query dispatcher (src/src/server.rs).                                   *)
(*                                                                         *)
(* Texts are sequences of characters, each character a one-character       *)
(* string; fixed phrases of a format! template are one element each.       *)
(* Option<T> is a sequence of length at most one: <<>> is None, <<v>> is    *)
(* Some(v).                                                                *)
(***************************************************************************)
EXTENDS Integers, Sequences, FiniteSets, TLC

\* ------------------------------------------------------------------ bounds
NumCalls == 2
MaxMatches == 3
MaxLine == 1
MaxFmtLen == 2

Calls == 1..NumCalls

\* ------------------------------------------------------------ Option, text
None == <<>>
Some(v) == <<v>>
IsSome(o) == o # <<>>
UnwrapOr(o, d) == IF o = <<>> THEN d ELSE o[1]

\* char::is_whitespace: what str::trim and str::trim_end remove.
RustWhitespace == {" ", "\n", "\t", "\r", "\f"}
\* The whitespace serde_json skips between tokens: form feed is not among it.
JsonWhitespace == {" ", "\n", "\t", "\r"}

RECURSIVE TrimStart(_)
TrimStart(s) ==
    IF s = <<>> THEN <<>>
    ELSE IF Head(s) \in RustWhitespace THEN TrimStart(Tail(s))
    ELSE s

RECURSIVE TrimEnd(_)
TrimEnd(s) ==
    IF s = <<>> THEN <<>>
    ELSE IF s[Len(s)] \in RustWhitespace THEN TrimEnd(SubSeq(s, 1, Len(s) - 1))
    ELSE s

Trim(s) == TrimEnd(TrimStart(s))

StartsWith(s, ch) == s # <<>> /\ Head(s) = ch

DigitChars == <<"0", "1", "2", "3", "4", "5", "6", "7", "8", "9">>

\* Display of an unsigned integer: its decimal digits.
RECURSIVE Dec(_)
Dec(n) ==
    IF n < 10 THEN <<DigitChars[n + 1]>>
    ELSE Dec(n \div 10) \o <<DigitChars[(n % 10) + 1]>>

\* Display of an i32.
DecInt(n) == IF n < 0 THEN <<"-">> \o Dec(0 - n) ELSE Dec(n)

\* [String]::join(sep)
RECURSIVE Join(_, _)
Join(blocks, sep) ==
    IF blocks = <<>> THEN <<>>
    ELSE IF Len(blocks) = 1 THEN blocks[1]
    ELSE blocks[1] \o sep \o Join(Tail(blocks), sep)

\* --------------------------------------------------------- match formatter
\* A match record as the formatter reads it: m.get("file").as_str(),
\* m.pointer("/range/start/line").as_u64(), m.pointer("/range/end/line")
\* .as_u64(), m.get("text").as_str(), each an Option.
MatchValue(file, startLine, endLine, text) ==
    [file |-> file, startLine |-> startLine, endLine |-> endLine, text |-> text]

\* A u64 is an integer modulo 2^64, held by its representative nearest to
\* zero: n >= 0 is the value n, and n < 0 is the value 2^64 + n, so that -1 is
\* u64::MAX = 18446744073709551615. Adding one to a representative wraps as
\* the 64-bit addition does: -1 + 1 = 0.
U64Max == -1
TwoTo64High == <<"1", "8", "4", "4", "6", "7", "4", "4", "0", "7", "3", "7", "0">>
TwoTo64Low == 9551616

\* Display of a u64: for 2^64 + n, the digits of 1844674407370 * 10^7 +
\* (9551616 + n).
DecU64(n) == IF n >= 0 THEN Dec(n) ELSE TwoTo64High \o Dec(TwoTo64Low + n)

\* serde_json::Value as the formatter's accessors see one field: absent (or
\* under an absent parent), a string, an unsigned integer, or a value of
\* another type (null, a negative or fractional number, an object).
JsonAbsent == [kind |-> "absent", str |-> <<>>, num |-> 0]
JsonString(t) == [kind |-> "string", str |-> t, num |-> 0]
JsonU64(n) == [kind |-> "u64", str |-> <<>>, num |-> n]
JsonOther == [kind |-> "other", str |-> <<>>, num |-> 0]

\* m.get(..).and_then(|v| v.as_str()), m.pointer(..).and_then(|v| v.as_u64())
as_str(v) == IF v.kind = "string" THEN Some(v.str) ELSE None
as_u64(v) == IF v.kind = "u64" THEN Some(v.num) ELSE None

\* What the formatter reads from the record with these four fields.
ReadMatch(j) ==
    MatchValue(as_str(j.file), as_u64(j.startLine), as_u64(j.endLine),
               as_str(j.text))

OneBasedRaw(line) == UnwrapOr(line, 0)
\* unwrap_or(0) + 1 where the addition wraps (a build without overflow checks).
OneBased(line) == UnwrapOr(line, 0) + 1

\* The same addition overflows: a build with overflow checks panics there.
AddOverflows(line) == UnwrapOr(line, 0) = U64Max

Header(file_path, start_line, end_line) ==
    IF start_line = end_line
    THEN file_path \o <<":">> \o DecU64(start_line)
    ELSE file_path \o <<":">> \o DecU64(start_line) \o <<"-">> \o DecU64(end_line)

\* One iteration of the loop: the block pushed for record m.
RenderBlock(m) ==
    LET file_path  == UnwrapOr(m.file, <<>>)
        start_line == OneBased(m.startLine)
        end_line   == OneBased(m.endLine)
        match_text == TrimEnd(UnwrapOr(m.text, <<>>))
    IN  Header(file_path, start_line, end_line) \o <<"\n">> \o match_text

BlockSeparatorOneNewline == <<"\n">>
BlockSeparator == <<"\n", "\n">>

format_matches_as_text(matches) ==
    IF matches = <<>> THEN <<>>
    ELSE Join([i \in 1..Len(matches) |-> RenderBlock(matches[i])], BlockSeparator)

\* Some record makes one of the two additions of the loop overflow.
Panics(matches) ==
    \E i \in 1..Len(matches) :
        AddOverflows(matches[i].startLine) \/ AddOverflows(matches[i].endLine)

\* ------------------------------------------------------- tool output, JSON
\* The tool's stdout is a text whose characters are whitespace, the JSON
\* punctuation "[" "]" ",", one character per complete JSON value (a match
\* record, named by its id), the letter "x" (text that is not JSON) and one
\* byte that is not valid UTF-8.
MatchIds == {"a", "b"}
InvalidByte == "0xFF"
ReplacementChar == "U+FFFD"

\* The fields the formatter reads from the record named id.
MatchOf(id) ==
    IF id = "a"
    THEN MatchValue(Some(<<"a", ".", "p", "y">>), Some(0), Some(0),
                    Some(<<"d", "e", "f">>))
    ELSE MatchValue(Some(<<"b", ".", "p", "y">>), Some(1), Some(2),
                    Some(<<" ", "p", "\n", "q", " ", "\n">>))

MatchesOf(ids) == [i \in 1..Len(ids) |-> MatchOf(ids[i])]

\* String::from_utf8_lossy
from_utf8_lossy(bytes) ==
    [i \in 1..Len(bytes) |->
        IF bytes[i] = InvalidByte THEN ReplacementChar ELSE bytes[i]]

RECURSIVE SkipJsonWs(_)
SkipJsonWs(s) ==
    IF s = <<>> THEN <<>>
    ELSE IF Head(s) \in JsonWhitespace THEN SkipJsonWs(Tail(s))
    ELSE s

\* After "[" and a value or a comma: value, then "," value ... "]", then only
\* whitespace to the end of the text.
RECURSIVE ParseElements(_, _)
ParseElements(s, acc) ==
    LET t == SkipJsonWs(s) IN
    IF t = <<>> \/ Head(t) \notin MatchIds THEN None
    ELSE LET u == SkipJsonWs(Tail(t))
             got == Append(acc, Head(t))
         IN  IF u = <<>> THEN None
             ELSE IF Head(u) = "," THEN ParseElements(Tail(u), got)
             ELSE IF Head(u) = "]"
                  THEN (IF SkipJsonWs(Tail(u)) = <<>> THEN Some(got) ELSE None)
             ELSE None

\* serde_json::from_str::<Vec<Value>>: Some(values) or None for an Err.
from_str(s) ==
    LET t == SkipJsonWs(s) IN
    IF t = <<>> \/ Head(t) # "[" THEN None
    ELSE LET u == SkipJsonWs(Tail(t)) IN
         IF u # <<>> /\ Head(u) = "]"
         THEN (IF SkipJsonWs(Tail(u)) = <<>> THEN Some(<<>>) ELSE None)
         ELSE ParseElements(u, <<>>)

\* serde_json::to_string_pretty of a Vec<Value>
to_string_pretty(values) ==
    IF values = <<>> THEN <<"[", "]">>
    ELSE <<"[", "\n">>
         \o Join([i \in 1..Len(values) |-> <<" ", " ", values[i]>>], <<",", "\n">>)
         \o <<"\n", "]">>

\* serde_json::to_string of a Vec<Value>: what the tool prints with --json=compact
to_string_compact(values) ==
    <<"[">> \o Join([i \in 1..Len(values) |-> <<values[i]>>], <<",">>) \o <<"]">>

\* ------------------------------------------- process invoker and classifier
NoErrorOutput == <<"(no error output)">>

\* Result<CommandResult, CommandError>, one record shape for every variant.
CmdSuccess(stdout, stderr) ==
    [tag |-> "Ok", stdout |-> stdout, stderr |-> stderr, cmd |-> <<>>,
     code |-> 0, name |-> ""]
CmdFailed(cmd, code, stderr) ==
    [tag |-> "Failed", stdout |-> <<>>, stderr |-> stderr, cmd |-> cmd,
     code |-> code, name |-> ""]
CmdNotFound(name) ==
    [tag |-> "NotFound", stdout |-> <<>>, stderr |-> <<>>, cmd |-> <<>>,
     code |-> 0, name |-> name]
CmdIo(kind) ==
    [tag |-> "Io", stdout |-> <<>>, stderr |-> <<>>, cmd |-> <<>>,
     code |-> 0, name |-> kind]
NoCmdResult ==
    [tag |-> "None", stdout |-> <<>>, stderr |-> <<>>, cmd |-> <<>>,
     code |-> 0, name |-> ""]

Contains(args, a) == \E i \in 1..Len(args) : args[i] = a

\* The "no matches" shapes of stdout accepted with exit code 1.
NoMatchShapeJsonless(args, stdout_stripped) ==
    ~Contains(args, "--json") /\ stdout_stripped = <<>>
NoMatchShape(args, stdout_stripped) ==
    \/ stdout_stripped = <<>>
    \/ stdout_stripped = <<"[", "]">>
    \/ StartsWith(stdout_stripped, "[")
    \/ (~Contains(args, "--json") /\ stdout_stripped = <<>>)

\* output.status.code().unwrap_or(1)
ExitCodeOf(status) == UnwrapOr(status, 1)

\* run_command after wait_with_output: status is Some(code), or None when the
\* child was ended by a signal; out and err are the bytes of the two pipes.
Classify(args, status, out, err) ==
    LET stdout == from_utf8_lossy(out)
        stderr == from_utf8_lossy(err)
        exit_code == ExitCodeOf(status)
    IN  IF status = Some(0) THEN CmdSuccess(stdout, stderr)
        ELSE IF exit_code = 1 /\ NoMatchShape(args, Trim(stdout))
             THEN CmdSuccess(stdout, stderr)
        ELSE CmdFailed(args, exit_code,
                       IF Trim(stderr) = <<>> THEN NoErrorOutput ELSE Trim(stderr))

\* A PathBuf is named by its bytes. One path of the model holds a byte that
\* is not valid UTF-8 (a file name a Unix command line can carry).
NonUtf8Path == "cfg0xFF.yml"
\* Path::to_string_lossy: the path as text, U+FFFD for what is not UTF-8.
to_string_lossy(path) == IF path = NonUtf8Path THEN "cfgU+FFFD.yml" ELSE path

\* run_ast_grep: the argument list handed to run_command.
FinalArgs(command, args, config_path) ==
    <<"ast-grep", command>>
    \o (IF IsSome(config_path) THEN <<"--config", to_string_lossy(config_path[1])>>
        ELSE <<>>)
    \o args

\* Display of CommandError: the message of the McpError built from it.
DebugList(cmd) ==
    <<"[">> \o Join([i \in 1..Len(cmd) |-> <<"\"", cmd[i], "\"">>], <<", ">>) \o <<"]">>

ErrorText(e) ==
    IF e.tag = "Failed"
    THEN <<"Command ">> \o DebugList(e.cmd) \o <<" failed with exit code ">>
         \o DecInt(e.code) \o <<": ">> \o e.stderr
    ELSE IF e.tag = "NotFound"
    THEN <<"Command '", e.name, "' not found. Please ensure ", e.name,
           " is installed and in PATH.">>
    ELSE <<"IO error: ", e.name>>

\* --------------------------------------------------------- query dispatcher
\* Result<CallToolResult, McpError>. run is the outcome of the call's
\* run_command (NoCmdResult when run_command was never called). A direct call
\* of run_command is reported in the same shape, with ok = (run is Ok).
McpOk(text, run) == [ok |-> TRUE, code |-> 0, text |-> text, run |-> run]
McpErr(code, text, run) == [ok |-> FALSE, code |-> code, text |-> text, run |-> run]
NoResult == [ok |-> FALSE, code |-> 0, text |-> <<>>, run |-> NoCmdResult]

InvalidParamsCode == -32602
InternalErrorCode == -32603
\* The message of server.rs:157, written without the backquotes that the
\* source puts around stopBy: end.
NoMatchesHint ==
    <<"No matches found for the given code and rule. Try adding stopBy: end to your inside/has rule.">>

FindOps == {"find_code", "find_code_by_rule"}

\* A request: the operation and its parameter struct. A direct call of
\* run_command carries args and input, one of run_ast_grep its subcommand as
\* well; the other fields are then unused.
Request(op, language, max_results, output_format, args, input) ==
    [op |-> op, code |-> "CODE", language |-> language, format |-> "cst",
     yaml |-> "YAML", pattern |-> "PATTERN", project_folder |-> "/proj",
     max_results |-> max_results, output_format |-> output_format,
     command |-> "", args |-> args, input |-> input]
NoRequest == Request("none", "", 0, "text", <<>>, None)
\* run_ast_grep(command, args, input_text, ..) called by a user of the library.
DirectRequest(command, args, input) ==
    [Request("run_ast_grep", "", 0, "text", args, input) EXCEPT !.command = command]

FormatAccepted(output_format) == TRUE
FormatValid(output_format) == output_format = "text" \/ output_format = "json"

InvalidFormatError(output_format) ==
    LET message == <<"Invalid output_format: ", output_format,
                     ". Must be 'text' or 'json'.">>
    IN  McpErr(InvalidParamsCode, message, NoCmdResult)

\* The flags each handler builds, and the subcommand it names.
FlagsOf(r) ==
    IF r.op = "run_ast_grep" THEN r.args
    ELSE IF r.op = "dump_syntax_tree"
    THEN <<"--pattern", r.code, "--lang", r.language, "--debug-query=" \o r.format>>
    ELSE IF r.op = "test_match_code_rule"
    THEN <<"--inline-rules", r.yaml, "--json", "--stdin">>
    ELSE IF r.op = "find_code"
    THEN <<"--pattern", r.pattern>>
         \o (IF r.language # "" THEN <<"--lang", r.language>> ELSE <<>>)
         \o <<"--json", r.project_folder>>
    ELSE <<"--inline-rules", r.yaml, "--json", r.project_folder>>

SubcommandOf(r) ==
    IF r.op = "run_ast_grep" THEN r.command
    ELSE IF r.op \in {"dump_syntax_tree", "find_code"} THEN "run" ELSE "scan"

\* The argument list and the stdin text that reach run_command.
ArgvOf(r, config_path) ==
    IF r.op = "run_command" THEN r.args
    ELSE FinalArgs(SubcommandOf(r), FlagsOf(r), config_path)

InputOf(r) ==
    IF r.op \in {"run_command", "run_ast_grep"} THEN r.input
    ELSE IF r.op = "test_match_code_rule" THEN Some(<<r.code>>)
    ELSE None

\* let matches = if stdout.is_empty() { vec![] } else { from_str(stdout).unwrap_or_else(vec![]) }
ParseMatches(stdout) ==
    LET s == Trim(stdout) IN
    IF s = <<>> THEN <<>> ELSE UnwrapOr(from_str(s), <<>>)

IsTruncated(total_matches, max_results) ==
    max_results > 0 /\ total_matches > max_results

TruncateOffByOne(all, max_results) ==
    IF IsTruncated(Len(all), max_results)
    THEN SubSeq(all, 2, max_results + 1)
    ELSE all
Truncate(all, max_results) ==
    IF IsTruncated(Len(all), max_results)
    THEN SubSeq(all, 1, max_results)
    ELSE all

FoundHeaderPlain(shown, total_matches, max_results) ==
    <<"Found ">> \o Dec(shown) \o <<" matches">>
FoundHeader(shown, total_matches, max_results) ==
    IF IsTruncated(total_matches, max_results)
    THEN <<"Found ">> \o Dec(total_matches) \o <<" matches (showing first ">>
         \o DecInt(max_results) \o <<" of ">> \o Dec(total_matches) \o <<")">>
    ELSE <<"Found ">> \o Dec(shown) \o <<" matches">>

\* find_code and find_code_by_rule after a successful run_ast_grep.
FindResult(r, run) ==
    LET all == ParseMatches(run.stdout)
        total_matches == Len(all)
        matches == Truncate(all, r.max_results)
    IN  IF r.output_format = "text"
        THEN IF matches = <<>> THEN McpOk(<<"No matches found">>, run)
             ELSE McpOk(FoundHeader(Len(matches), total_matches, r.max_results)
                        \o <<":", "\n", "\n">>
                        \o format_matches_as_text(MatchesOf(matches)), run)
        ELSE McpOk(to_string_pretty(matches), run)

RuleTestResultLenient(run) ==
    McpOk(to_string_pretty(UnwrapOr(from_str(run.stdout), <<>>)), run)
\* test_match_code_rule after a successful run_ast_grep.
RuleTestResult(run) ==
    LET matches == UnwrapOr(from_str(run.stdout), <<>>) IN
    IF matches = <<>> THEN McpErr(InternalErrorCode, NoMatchesHint, run)
    ELSE McpOk(to_string_pretty(matches), run)

DumpResultStdout(run) == McpOk(Trim(run.stdout), run)
\* dump_syntax_tree after a successful run_ast_grep.
DumpResult(run) == McpOk(Trim(run.stderr), run)

\* What the handler returns once run_command has returned run.
Finish(r, run) ==
    IF r.op \in {"run_command", "run_ast_grep"}
    THEN [ok |-> run.tag = "Ok", code |-> 0, text |-> <<>>, run |-> run]
    ELSE IF run.tag # "Ok" THEN McpErr(0, ErrorText(run), run)
    ELSE IF r.op = "dump_syntax_tree" THEN DumpResult(run)
    ELSE IF r.op = "test_match_code_rule" THEN RuleTestResult(run)
    ELSE FindResult(r, run)

\* ------------------------------------------------------------------ inputs
Caps == -1..(MaxMatches - 1)
IdSeqs == UNION {[1..k -> MatchIds] : k \in 0..MaxMatches}

\* What a child may print on stdout: every array of at most MaxMatches
\* records, compact, some of them pretty-printed, and texts that are not an
\* array; each bare and between whitespace.
StdoutBodies ==
    {to_string_compact(v) : v \in IdSeqs}
    \cup {to_string_pretty(v) : v \in {w \in IdSeqs : Len(w) = 2}}
    \cup {<<>>, <<"[">>, <<"[", "a">>, <<"[", "a", ",", "]">>, <<"a">>, <<"x">>,
          <<"n", "o", "t", " ", "j", "s", "o", "n">>,
          <<"x", "[", "a", "]">>, <<"[", "a", "]", "x">>, <<"[", InvalidByte>>}
Paddings == {<< <<>>, <<>> >>, << <<" ">>, <<"\n">> >>, << <<"\f">>, <<>> >>}
StdoutTexts == {p[1] \o b \o p[2] : p \in Paddings, b \in StdoutBodies}
StderrTexts == {<<>>, <<"\n">>, <<" ", "e", "r", "r", "\n">>}
Statuses == {Some(0), Some(1), Some(2), None}
Outputs == [status : Statuses, out : StdoutTexts, err : StderrTexts]

Requests ==
    {Request("dump_syntax_tree", "python", 0, "text", <<>>, None),
     Request("test_match_code_rule", "", 0, "text", <<>>, None)}
    \cup {Request("find_code", l, m, f, <<>>, None) :
            l \in {"", "python"}, m \in Caps, f \in {"text", "json", "xml"}}
    \cup {Request("find_code_by_rule", "", m, f, <<>>, None) :
            m \in Caps, f \in {"text", "json", "xml"}}
    \cup {Request("run_command", "", 0, "text", a, i) :
            a \in {<<>>, <<"ast-grep", "run", "--json">>, <<"ast-grep", "run">>},
            i \in {None, Some(<<"i", "n">>)}}
    \cup {DirectRequest("run", <<>>, None),
          DirectRequest("scan", <<"--json", "--config", "other.yml">>, None),
          DirectRequest("--config", <<"--stdin">>, Some(<<"i", "n">>))}

\* The inputs of the runs with several calls in flight.
ConcRequests ==
    {Request("dump_syntax_tree", "python", 0, "text", <<>>, None),
     Request("test_match_code_rule", "", 0, "text", <<>>, None),
     Request("find_code", "", 1, "text", <<>>, None),
     Request("find_code", "", 0, "xml", <<>>, None),
     Request("run_command", "", 0, "text", <<>>, None)}
ConcOutputs ==
    {[status |-> Some(0), out |-> <<"[", "a", ",", "b", "]">>, err |-> <<"t">>],
     [status |-> Some(1), out |-> <<"x">>, err |-> <<"e">>],
     [status |-> None, out |-> <<>>, err |-> <<>>]}

\* ------------------------------------------------------------------- state
VARIABLES
    config_path,    \* AstGrepServer.config.config_path, fixed at start
    pc,             \* per call: idle, entry, spawn, write, wait, done
    req,            \* per call: the request being served
    argv,           \* per call: the argument list given to run_command
    stdin,          \* per call: input_text
    child,          \* per call: its child process and what the OS did to it
    spawns,         \* per call: how many times command.spawn() was called
    result,         \* per call: what the call returned
    matches,        \* the formatter's input, called on its own
    rendered,       \* Some(text) once format_matches_as_text has returned
    aborted,        \* format_matches_as_text panicked instead of returning
    invoker,        \* run_command at the pipes: idle, write, drain, returned
    unwritten,      \* bytes of input_text that write_all has yet to write
    stdinOpen,      \* run_command holds the write end of the child's stdin
    pipeIn,         \* bytes buffered in the child's stdin pipe
    pipeOut,        \* bytes buffered in the child's stdout pipe
    pipeErr,        \* bytes buffered in the child's stderr pipe
    behaviour,      \* what the child does with its input (see Programs)
    owedOut,        \* bytes the child must write to stdout before going on
    owedErr,        \* bytes the child must write to stderr before going on
    sawEof,         \* the child has read its stdin to the end
    exited          \* the child has exited

pipeVars == <<invoker, unwritten, stdinOpen, pipeIn, pipeOut, pipeErr, behaviour,
              owedOut, owedErr, sawEof, exited>>
vars == <<config_path, pc, req, argv, stdin, child, spawns, result, matches, rendered,
          aborted, pipeVars>>
callVars == <<config_path, pc, req, argv, stdin, child, spawns, result>>
fmtVars == <<matches, rendered, aborted>>

NoChild ==
    [state |-> "none", spawn |-> "none", write |-> "none", wait |-> "none",
     status |-> None, out |-> <<>>, err |-> <<>>]

InitCalls ==
    /\ pc = [c \in Calls |-> "idle"]
    /\ req = [c \in Calls |-> NoRequest]
    /\ argv = [c \in Calls |-> <<>>]
    /\ stdin = [c \in Calls |-> None]
    /\ child = [c \in Calls |-> NoChild]
    /\ spawns = [c \in Calls |-> 0]
    /\ result = [c \in Calls |-> NoResult]

InitFmt == matches = <<>> /\ rendered = None /\ aborted = FALSE

NoProgram == [input |-> 0, echo |-> 0, tailOut |-> 0, tailErr |-> 0]

InitPipe ==
    /\ invoker = "idle"
    /\ unwritten = 0
    /\ stdinOpen = FALSE
    /\ pipeIn = 0 /\ pipeOut = 0 /\ pipeErr = 0
    /\ behaviour = NoProgram
    /\ owedOut = 0 /\ owedErr = 0
    /\ sawEof = FALSE
    /\ exited = FALSE

\* The server is built with or without a configuration path.
Init ==
    /\ config_path \in {None, Some("sgconfig.yml"), Some(NonUtf8Path)}
    /\ InitCalls
    /\ InitFmt
    /\ InitPipe

\* ----------------------------------------------------------------- actions
\* A request arrives and its handler is scheduled.
Call(c, R) ==
    /\ pc[c] = "idle"
    /\ \E r \in R : req' = [req EXCEPT ![c] = r]
    /\ pc' = [pc EXCEPT ![c] = "entry"]
    /\ UNCHANGED <<config_path, argv, stdin, child, spawns, result, fmtVars, pipeVars>>

\* The handler up to its call of run_command: the check of output_format
\* (find_code, find_code_by_rule), then the argument list.
Enter(c) ==
    /\ pc[c] = "entry"
    /\ IF req[c].op \in FindOps /\ ~FormatValid(req[c].output_format)
       THEN /\ result' = [result EXCEPT ![c] = InvalidFormatError(req[c].output_format)]
            /\ pc' = [pc EXCEPT ![c] = "done"]
            /\ UNCHANGED <<argv, stdin>>
       ELSE /\ argv' = [argv EXCEPT ![c] = ArgvOf(req[c], config_path)]
            /\ stdin' = [stdin EXCEPT ![c] = InputOf(req[c])]
            /\ pc' = [pc EXCEPT ![c] = "spawn"]
            /\ UNCHANGED result
    /\ UNCHANGED <<config_path, req, child, spawns, fmtVars, pipeVars>>

AfterSpawnErrorRetry == "spawn"
\* command.spawn().map_err(..)?: the error is returned, the call is over.
AfterSpawnError == "done"

SpawnError(outcome, program) ==
    IF outcome = "not_found" THEN CmdNotFound(program) ELSE CmdIo("spawn")

\* run_command up to command.spawn(): no spawn for an empty argument list.
\* The program is args[0]; the cmd /C wrapper of lines 33-38 is compiled in
\* for Windows targets only and changes neither the error mapping nor what
\* follows the spawn.
Spawn(c) ==
    /\ pc[c] = "spawn"
    /\ IF argv[c] = <<>>
       THEN /\ result' = [result EXCEPT ![c] = Finish(req[c], CmdIo("Empty command args"))]
            /\ pc' = [pc EXCEPT ![c] = "done"]
            /\ UNCHANGED <<child, spawns>>
       ELSE \E outcome \in {"ok", "not_found", "io_error"} :
            /\ spawns' = [spawns EXCEPT ![c] = @ + 1]
            /\ IF outcome = "ok"
               THEN /\ child' = [child EXCEPT ![c] =
                                   [NoChild EXCEPT !.spawn = "ok", !.state = "running"]]
                    /\ pc' = [pc EXCEPT ![c] = IF IsSome(stdin[c]) THEN "write" ELSE "wait"]
                    /\ UNCHANGED result
               ELSE /\ child' = [child EXCEPT ![c] = [NoChild EXCEPT !.spawn = outcome]]
                    /\ result' = [result EXCEPT ![c] =
                                     Finish(req[c], SpawnError(outcome, argv[c][1]))]
                    /\ pc' = [pc EXCEPT ![c] = AfterSpawnError]
    /\ UNCHANGED <<config_path, req, argv, stdin, fmtVars, pipeVars>>

WriteErrorEndsCallAlways(outcome) == outcome # "ok"
\* if let Err(e) = .. { if e.kind() != BrokenPipe { return Err(Io(e)) } }
WriteErrorEndsCall(outcome) == outcome # "ok" /\ outcome # "broken_pipe"

\* stdin.write_all(input).await: a broken pipe is ignored, another error ends
\* the call.
WriteStdin(c) ==
    /\ pc[c] = "write"
    /\ \E outcome \in {"ok", "broken_pipe", "io_error"} :
        /\ child' = [child EXCEPT ![c].write = outcome]
        /\ IF WriteErrorEndsCall(outcome)
           THEN /\ result' = [result EXCEPT ![c] = Finish(req[c], CmdIo("write"))]
                /\ pc' = [pc EXCEPT ![c] = "done"]
           ELSE /\ pc' = [pc EXCEPT ![c] = "wait"]
                /\ UNCHANGED result
    /\ UNCHANGED <<config_path, req, argv, stdin, spawns, fmtVars, pipeVars>>

\* The child of call c ends: its exit status and what it wrote to its pipes.
ChildExit(c, O) ==
    /\ pc[c] = "wait"
    /\ child[c].state = "running"
    /\ \E o \in O :
        child' = [child EXCEPT ![c].state = "exited", ![c].status = o.status,
                               ![c].out = o.out, ![c].err = o.err]
    /\ UNCHANGED <<config_path, pc, req, argv, stdin, spawns, result, fmtVars, pipeVars>>

\* child.wait_with_output().await fails.
WaitFail(c) ==
    /\ pc[c] = "wait"
    /\ child[c].state = "running"
    /\ child' = [child EXCEPT ![c].wait = "io_error"]
    /\ result' = [result EXCEPT ![c] = Finish(req[c], CmdIo("wait"))]
    /\ pc' = [pc EXCEPT ![c] = "done"]
    /\ UNCHANGED <<config_path, req, argv, stdin, spawns, fmtVars, pipeVars>>

CollectedOfFirst(c) == child[1]
\* The Output that wait_with_output gives call c: that of its own child.
Collected(c) == child[c]

\* child.wait_with_output().await returns: run_command classifies the child's
\* end and the handler builds its response.
Complete(c) ==
    /\ pc[c] = "wait"
    /\ child[c].state = "exited"
    /\ LET output == Collected(c) IN
       result' = [result EXCEPT ![c] =
                     Finish(req[c], Classify(argv[c], output.status, output.out, output.err))]
    /\ child' = [child EXCEPT ![c].wait = "ok"]
    /\ pc' = [pc EXCEPT ![c] = "done"]
    /\ UNCHANGED <<config_path, req, argv, stdin, spawns, fmtVars, pipeVars>>

\* The response is delivered; everything the call owned is dropped.
Return(c) ==
    /\ pc[c] = "done"
    /\ pc' = [pc EXCEPT ![c] = "idle"]
    /\ req' = [req EXCEPT ![c] = NoRequest]
    /\ argv' = [argv EXCEPT ![c] = <<>>]
    /\ stdin' = [stdin EXCEPT ![c] = None]
    /\ child' = [child EXCEPT ![c] = NoChild]
    /\ spawns' = [spawns EXCEPT ![c] = 0]
    /\ result' = [result EXCEPT ![c] = NoResult]
    /\ UNCHANGED <<config_path, fmtVars, pipeVars>>

\* Several calls in flight, their steps interleaved.
Next ==
    \E c \in Calls :
        \/ Call(c, ConcRequests)
        \/ Enter(c)
        \/ Spawn(c)
        \/ WriteStdin(c)
        \/ ChildExit(c, ConcOutputs)
        \/ WaitFail(c)
        \/ Complete(c)
        \/ Return(c)

Spec == Init /\ [][Next]_vars

\* One call at a time, over every request and every output of the child.
NextCall ==
    \/ Call(1, Requests)
    \/ Enter(1)
    \/ Spawn(1)
    \/ WriteStdin(1)
    \/ ChildExit(1, Outputs)
    \/ WaitFail(1)
    \/ Complete(1)
    \/ Return(1)

SpecCall == Init /\ [][NextCall]_vars

\* The formatter called on its own, on every sequence of at most MaxFmtLen
\* records.
FmtTexts == {<<" ", "t", " ", "\n">>, <<"t", "\n", "\n", " ", "u">>}
FmtLines == (0..MaxLine) \cup {9}
FmtRecords ==
    {MatchValue(Some(f), Some(s), Some(e), Some(t)) :
        f \in {<<"f">>, <<"g", ".", "r", "s">>}, s \in FmtLines, e \in FmtLines,
        t \in FmtTexts}

FmtPush ==
    /\ rendered = None /\ ~aborted
    /\ Len(matches) < MaxFmtLen
    /\ \E m \in FmtRecords : matches' = Append(matches, m)
    /\ UNCHANGED <<rendered, aborted, callVars, pipeVars>>

\* The call of format_matches_as_text. Whether an overflowing addition
\* panics or wraps is fixed by the build (overflow-checks), not by the source.
FmtRender ==
    /\ rendered = None /\ ~aborted
    /\ \E overflow_checks \in BOOLEAN :
        IF overflow_checks /\ Panics(matches)
        THEN aborted' = TRUE /\ rendered' = None
        ELSE aborted' = FALSE /\ rendered' = Some(format_matches_as_text(matches))
    /\ UNCHANGED <<matches, callVars, pipeVars>>

FmtReset ==
    /\ rendered # None \/ aborted
    /\ matches' = <<>>
    /\ rendered' = None
    /\ aborted' = FALSE
    /\ UNCHANGED <<callVars, pipeVars>>

NextFmt == FmtPush \/ FmtRender \/ FmtReset

SpecFmt == Init /\ [][NextFmt]_vars

\* The formatter on records as they come out of the JSON parser: fields
\* absent or of another type, line numbers up to u64::MAX.
JsonLines == {JsonAbsent, JsonOther, JsonU64(0), JsonU64(U64Max - 1), JsonU64(U64Max)}
JsonRecords ==
    [file : {JsonAbsent, JsonOther, JsonString(<<"f">>)},
     startLine : JsonLines, endLine : JsonLines,
     text : {JsonAbsent, JsonOther, JsonString(<<"t", " ">>)}]

FmtPushJson ==
    /\ rendered = None /\ ~aborted
    /\ Len(matches) < MaxFmtLen
    /\ \E j \in JsonRecords : matches' = Append(matches, ReadMatch(j))
    /\ UNCHANGED <<rendered, aborted, callVars, pipeVars>>

NextFmtJson == FmtPushJson \/ FmtRender \/ FmtReset

SpecFmtJson == Init /\ [][NextFmtJson]_vars

\* ------------------------------------------- run_command at the three pipes
\* Lines 58-71 of run_command byte by byte: stdin, stdout and stderr of the
\* child are pipes (Stdio::piped) that hold at most PipeCap bytes; a write to
\* a full pipe and a read from an empty one wait.
PipeCap == 1
MaxIn == 2 * PipeCap + 2
MaxOut == PipeCap + 1

\* The children considered: each reads its stdin to the end, writes its
\* output and exits, given room in its output pipes. After every byte read
\* it writes echo bytes to stdout before it reads on (0: it answers only
\* once it has read everything; 1: it answers as it reads, as a filter
\* does); at the end of stdin it writes tailOut and tailErr more bytes.
Programs ==
    [input : 0..MaxIn, echo : {0, 1}, tailOut : 0..MaxOut, tailErr : 0..MaxOut]

invokerSide == <<invoker, unwritten, stdinOpen>>
childSide == <<owedOut, owedErr, sawEof, exited>>

\* The child is spawned and input_text is Some: write_all begins.
PipeStart ==
    /\ invoker = "idle"
    /\ \E p \in Programs :
        /\ behaviour' = p
        /\ unwritten' = p.input
    /\ invoker' = "write"
    /\ stdinOpen' = TRUE
    /\ UNCHANGED <<pipeIn, pipeOut, pipeErr, childSide, callVars, fmtVars>>

\* stdin.write_all(..).await: one more byte, when the pipe has room.
InvokerWrite ==
    /\ invoker = "write"
    /\ unwritten > 0
    /\ pipeIn < PipeCap
    /\ unwritten' = unwritten - 1
    /\ pipeIn' = pipeIn + 1
    /\ UNCHANGED <<invoker, stdinOpen, pipeOut, pipeErr, behaviour, childSide,
                   callVars, fmtVars>>

\* write_all has returned: stdin is dropped at the end of the if-let block,
\* and wait_with_output starts to read stdout and stderr.
InvokerCloseStdin ==
    /\ invoker = "write"
    /\ unwritten = 0
    /\ stdinOpen' = FALSE
    /\ invoker' = "drain"
    /\ UNCHANGED <<unwritten, pipeIn, pipeOut, pipeErr, behaviour, childSide,
                   callVars, fmtVars>>

\* wait_with_output reads both pipes concurrently.
DrainOut ==
    /\ invoker = "drain"
    /\ pipeOut > 0
    /\ pipeOut' = pipeOut - 1
    /\ UNCHANGED <<invokerSide, pipeIn, pipeErr, behaviour, childSide, callVars, fmtVars>>

DrainErr ==
    /\ invoker = "drain"
    /\ pipeErr > 0
    /\ pipeErr' = pipeErr - 1
    /\ UNCHANGED <<invokerSide, pipeIn, pipeOut, behaviour, childSide, callVars, fmtVars>>

\* wait_with_output returns: the child has exited and both pipes are read
\* to their end.
InvokerReturn ==
    /\ invoker = "drain"
    /\ exited
    /\ pipeOut = 0 /\ pipeErr = 0
    /\ invoker' = "returned"
    /\ UNCHANGED <<unwritten, stdinOpen, pipeIn, pipeOut, pipeErr, behaviour, childSide,
                   callVars, fmtVars>>

\* The child reads a byte, once it has written what it owed.
ChildRead ==
    /\ invoker # "idle" /\ ~exited /\ ~sawEof
    /\ owedOut = 0
    /\ pipeIn > 0
    /\ pipeIn' = pipeIn - 1
    /\ owedOut' = behaviour.echo
    /\ UNCHANGED <<invokerSide, pipeOut, pipeErr, behaviour, owedErr, sawEof, exited,
                   callVars, fmtVars>>

\* The child's read returns 0: the pipe is empty and its write end closed.
ChildEof ==
    /\ invoker # "idle" /\ ~exited /\ ~sawEof
    /\ owedOut = 0
    /\ pipeIn = 0 /\ ~stdinOpen
    /\ sawEof' = TRUE
    /\ owedOut' = behaviour.tailOut
    /\ owedErr' = behaviour.tailErr
    /\ UNCHANGED <<invokerSide, pipeIn, pipeOut, pipeErr, behaviour, exited,
                   callVars, fmtVars>>

ChildWriteOut ==
    /\ owedOut > 0
    /\ pipeOut < PipeCap
    /\ owedOut' = owedOut - 1
    /\ pipeOut' = pipeOut + 1
    /\ UNCHANGED <<invokerSide, pipeIn, pipeErr, behaviour, owedErr, sawEof, exited,
                   callVars, fmtVars>>

ChildWriteErr ==
    /\ owedErr > 0
    /\ pipeErr < PipeCap
    /\ owedErr' = owedErr - 1
    /\ pipeErr' = pipeErr + 1
    /\ UNCHANGED <<invokerSide, pipeIn, pipeOut, behaviour, owedOut, sawEof, exited,
                   callVars, fmtVars>>

ChildDone ==
    /\ sawEof /\ ~exited
    /\ owedOut = 0 /\ owedErr = 0
    /\ exited' = TRUE
    /\ UNCHANGED <<invokerSide, pipeIn, pipeOut, pipeErr, behaviour, owedOut, owedErr,
                   sawEof, callVars, fmtVars>>

\* run_command has returned; the next call starts from nothing.
PipeReset ==
    /\ invoker = "returned"
    /\ invoker' = "idle"
    /\ unwritten' = 0
    /\ stdinOpen' = FALSE
    /\ pipeIn' = 0 /\ pipeOut' = 0 /\ pipeErr' = 0
    /\ behaviour' = NoProgram
    /\ owedOut' = 0 /\ owedErr' = 0
    /\ sawEof' = FALSE
    /\ exited' = FALSE
    /\ UNCHANGED <<callVars, fmtVars>>

InvokerStep ==
    InvokerWrite \/ InvokerCloseStdin \/ DrainOut \/ DrainErr \/ InvokerReturn
ChildStep ==
    ChildRead \/ ChildEof \/ ChildWriteOut \/ ChildWriteErr \/ ChildDone

NextPipe == PipeStart \/ InvokerStep \/ ChildStep \/ PipeReset

\* The runtime runs a task that can go on, the OS a child that can go on.
SpecPipe ==
    Init /\ [][NextPipe]_vars /\ WF_vars(InvokerStep) /\ WF_vars(ChildStep)

\* ------------------------------------------------------------------ claims
Done(c) == pc[c] = "done"
\* run_command of call c got as far as classifying the end of its child.
Classified(c) == Done(c) /\ child[c].wait = "ok"
StdoutOf(c) == from_utf8_lossy(child[c].out)
StderrOf(c) == from_utf8_lossy(child[c].err)
ArrayShaped(t) == t = <<>> \/ t = <<"[", "]">> \/ StartsWith(t, "[")
TrimmedOrPlaceholder(t) == IF Trim(t) = <<>> THEN NoErrorOutput ELSE Trim(t)

\* C1: a child that exits with code 1 gives Success, carrying stdout and
\* stderr untrimmed, when its trimmed stdout is empty, is [] or begins with
\* "[", with or without --json among the arguments; with any other stdout,
\* exit code 1 is a failure.
C1_ExitOneClassified ==
    \A c \in Calls :
        Classified(c) /\ child[c].status = Some(1) =>
            IF ArrayShaped(Trim(StdoutOf(c)))
            THEN result[c].run = CmdSuccess(StdoutOf(c), StderrOf(c))
            ELSE result[c].run.tag = "Failed"

C1_Witness ==
    \E c \in Calls :
        /\ Classified(c) /\ child[c].status = Some(1)
        /\ Contains(argv[c], "--json")
        /\ child[c].out # <<>> /\ Trim(StdoutOf(c)) = <<>>
        /\ result[c].run.tag = "Ok"

\* C2: Success only for exit code 0, or exit code 1 with array-shaped or
\* empty stdout; every other end of the child, death by signal included, is
\* ProcessFailed with the argument list, the exit code and the trimmed stderr
\* or "(no error output)".
C2_SuccessOnlyForZeroOrOne ==
    \A c \in Calls :
        Classified(c) =>
            IF \/ child[c].status = Some(0)
               \/ child[c].status = Some(1) /\ ArrayShaped(Trim(StdoutOf(c)))
            THEN result[c].run.tag = "Ok"
            ELSE /\ result[c].run.tag = "Failed"
                 /\ result[c].run.cmd = argv[c]
                 /\ result[c].run.stderr = TrimmedOrPlaceholder(StderrOf(c))
                 /\ IsSome(child[c].status) => result[c].run.code = child[c].status[1]

\* C3: find_code and find_code_by_rule with an output_format other than text
\* and json fail with InvalidParams (-32602), and no child is spawned at any
\* point of the call.
C3_InvalidFormatBeforeSpawn ==
    \A c \in Calls :
        req[c].op \in FindOps /\ req[c].output_format \notin {"text", "json"} =>
            /\ spawns[c] = 0
            /\ child[c] = NoChild
            /\ pc[c] \in {"entry", "done"}
            /\ Done(c) => /\ ~result[c].ok
                          /\ result[c].code = -32602
                          /\ result[c].run = NoCmdResult

C3_Witness ==
    \E c \in Calls :
        /\ Done(c) /\ req[c].op = "find_code_by_rule"
        /\ req[c].output_format = "xml"
        /\ result[c].code = -32602 /\ spawns[c] = 0

\* The match array the tool returned to a find operation, and the records a
\* call with cap max_results is to return from it.
ToolArray(c) == ParseMatches(result[c].run.stdout)
Shown(total, max_results) ==
    IF max_results > 0 /\ total > max_results THEN max_results ELSE total
Returned(c) ==
    [i \in 1..Shown(Len(ToolArray(c)), req[c].max_results) |-> ToolArray(c)[i]]
FindDone(c, output_format) ==
    /\ Done(c) /\ req[c].op \in FindOps
    /\ req[c].output_format = output_format
    /\ result[c].run.tag = "Ok"
Suffix(s, n) == SubSeq(s, Len(s) - n + 1, Len(s))

\* C4: find_code and find_code_by_rule return the first max_results records
\* of the tool's array, in order, when max_results > 0 and the array is
\* longer, and all of them otherwise; the json form is those records
\* unchanged, with no header.
C4_StablePrefix ==
    \A c \in Calls :
        /\ FindDone(c, "json") =>
              /\ result[c].ok
              /\ from_str(result[c].text) = Some(Returned(c))
              /\ Head(result[c].text) = "["
        /\ FindDone(c, "text") /\ Returned(c) # <<>> =>
              LET body == format_matches_as_text(MatchesOf(Returned(c))) IN
              /\ result[c].ok
              /\ Len(result[c].text) > Len(body)
              /\ Suffix(result[c].text, Len(body)) = body

C4_Witness ==
    \E c \in Calls :
        /\ FindDone(c, "json")
        /\ req[c].max_results = 2 /\ Len(ToolArray(c)) = 3
        /\ ToolArray(c)[1] # ToolArray(c)[2]
        /\ from_str(result[c].text) = Some(<<ToolArray(c)[1], ToolArray(c)[2]>>)

ExpectedHeader(c) ==
    LET total == Len(ToolArray(c))
        cap == req[c].max_results
    IN  IF cap > 0 /\ total > cap
        THEN <<"Found ">> \o Dec(total) \o <<" matches (showing first ">>
             \o Dec(cap) \o <<" of ">> \o Dec(total) \o <<")">>
        ELSE <<"Found ">> \o Dec(Len(Returned(c))) \o <<" matches">>

\* C5 as claimed: in the text form an empty array gives "No matches found",
\* and a non-empty one gives the header, a blank line and the formatter's
\* rendering of the returned records.
C5_HeaderThenBlankLine ==
    \A c \in Calls :
        FindDone(c, "text") =>
            /\ result[c].ok
            /\ result[c].text =
                  IF ToolArray(c) = <<>> THEN <<"No matches found">>
                  ELSE ExpectedHeader(c) \o <<"\n", "\n">>
                       \o format_matches_as_text(MatchesOf(Returned(c)))

\* C5 amended: as claimed, with a colon between the header and the blank
\* line ("Found 2 matches:", then an empty line, then the rendering).
C5_HeaderColonBlankLine ==
    \A c \in Calls :
        FindDone(c, "text") =>
            /\ result[c].ok
            /\ result[c].text =
                  IF ToolArray(c) = <<>> THEN <<"No matches found">>
                  ELSE ExpectedHeader(c) \o <<":", "\n", "\n">>
                       \o format_matches_as_text(MatchesOf(Returned(c)))

C5_Witness ==
    \E c \in Calls :
        /\ FindDone(c, "text")
        /\ req[c].max_results = 1 /\ Len(ToolArray(c)) = 3
        /\ SubSeq(result[c].text, 1, 7) =
              <<"Found ", "3", " matches (showing first ", "1", " of ", "3", ")">>

\* C6: test_match_code_rule never succeeds with an empty payload: a
\* successful run whose stdout parses to no match (or does not parse) gives
\* the no-matches error with the stopBy hint, which is not the error of a
\* failed run; a non-empty array is returned whole.
C6_EmptyIsAnError ==
    \A c \in Calls :
        Done(c) /\ req[c].op = "test_match_code_rule" =>
            LET run == result[c].run
                parsed == from_str(run.stdout)
            IN  /\ result[c].ok => result[c].text # <<>>
                /\ run.tag = "Ok" /\ (parsed = None \/ parsed = Some(<<>>)) =>
                      /\ ~result[c].ok
                      /\ result[c].code = -32603
                      /\ result[c].text = NoMatchesHint
                /\ run.tag = "Ok" /\ parsed # None /\ parsed # Some(<<>>) =>
                      /\ result[c].ok
                      /\ from_str(result[c].text) = parsed
                /\ run.tag # "Ok" =>
                      /\ ~result[c].ok
                      /\ result[c].code = 0
                      /\ result[c].text # NoMatchesHint

C6_Witness ==
    \E c \in Calls :
        /\ Done(c) /\ req[c].op = "test_match_code_rule"
        /\ result[c].run.tag = "Ok"
        /\ result[c].run.stdout # <<>>
        /\ from_str(result[c].run.stdout) = None
        /\ result[c].code = -32603

\* C7: a call of run_command with a non-empty argument list calls spawn
\* exactly once and one with an empty list never; no failure is followed by
\* a second spawn, so an operation spawns at most one child per call.
C7_OneSpawnPerCall ==
    \A c \in Calls :
        /\ spawns[c] <= 1
        /\ Done(c) /\ result[c].run # NoCmdResult =>
              spawns[c] = (IF argv[c] = <<>> THEN 0 ELSE 1)
        /\ Done(c) /\ result[c].run = NoCmdResult => spawns[c] = 0
        /\ child[c].state # "none" => spawns[c] = 1

C7_Witness ==
    \E c \in Calls :
        /\ Done(c) /\ result[c].run.tag = "NotFound"
        /\ argv[c] # <<>> /\ spawns[c] = 1

\* What request r returns when it runs alone and the OS treats its child as
\* env records: the handler and run_command from top to bottom.
Alone(r, config, env) ==
    IF r.op \in FindOps /\ r.output_format \notin {"text", "json"}
    THEN InvalidFormatError(r.output_format)
    ELSE LET args == ArgvOf(r, config) IN
         IF args = <<>> THEN Finish(r, CmdIo("Empty command args"))
         ELSE IF env.spawn # "ok" THEN Finish(r, SpawnError(env.spawn, args[1]))
         ELSE IF env.write = "io_error" THEN Finish(r, CmdIo("write"))
         ELSE IF env.wait = "io_error" THEN Finish(r, CmdIo("wait"))
         ELSE Finish(r, Classify(args, env.status, env.out, env.err))

\* C8: with several operations in flight, each returns what it would return
\* alone with the same parameters and the same behaviour of its child, and a
\* call that has returned, failed or not, leaves nothing behind.
C8_CallsIndependent ==
    \A c \in Calls :
        /\ Done(c) => result[c] = Alone(req[c], config_path, child[c])
        /\ pc[c] = "idle" =>
              /\ req[c] = NoRequest /\ argv[c] = <<>> /\ stdin[c] = None
              /\ child[c] = NoChild /\ spawns[c] = 0 /\ result[c] = NoResult

C8_Witness ==
    \E c, d \in Calls :
        /\ c # d
        /\ Classified(c) /\ Classified(d)
        /\ child[c].out # child[d].out
        /\ ~result[c].ok /\ result[d].ok

\* The text of record m with its trailing whitespace removed and nothing
\* else: the longest prefix whose last character is not whitespace.
TextOf(m) == UnwrapOr(m.text, <<>>)
ExpectedBody(m) ==
    LET t == TextOf(m)
        k == CHOOSE k \in 0..Len(t) :
                /\ k > 0 => t[k] \notin RustWhitespace
                /\ \A j \in (k + 1)..Len(t) : t[j] \in RustWhitespace
    IN  SubSeq(t, 1, k)
ExpectedRecordHeader(m) ==
    LET first == m.startLine[1] + 1
        last == m.endLine[1] + 1
    IN  m.file[1] \o <<":">> \o Dec(first)
        \o (IF first = last THEN <<>> ELSE <<"-">> \o Dec(last))

\* C9: each record's header is file:line or file:startLine-endLine with the
\* stored lines plus one, and its body is the record's text without its
\* trailing whitespace.
C9_OneBasedHeaders ==
    rendered # None =>
        rendered[1] =
            Join([i \in 1..Len(matches) |->
                    ExpectedRecordHeader(matches[i]) \o <<"\n">>
                    \o ExpectedBody(matches[i])],
                 <<"\n", "\n">>)

C9_Witness ==
    /\ rendered # None /\ Len(matches) = 2
    /\ matches[1].startLine = Some(0) /\ matches[1].endLine = Some(0)
    /\ matches[2].startLine = Some(9) /\ matches[2].endLine = Some(1)
    /\ matches[1].text = Some(<<" ", "t", " ", "\n">>)
    /\ SubSeq(rendered[1], 1, 7) = <<"f", ":", "1", "\n", " ", "t", "\n">>

\* The renderings of the records one by one, put together with sep before
\* every block but the first.
RECURSIVE BlocksFrom(_, _)
BlocksFrom(ms, i) ==
    IF i > Len(ms) THEN <<>>
    ELSE (IF i > 1 THEN <<"\n", "\n">> ELSE <<>>)
         \o format_matches_as_text(<<ms[i]>>) \o BlocksFrom(ms, i + 1)

\* C10: the output is the blocks of the records in input order, exactly one
\* blank line between two blocks, nothing before the first or after the
\* last; the empty input gives the empty string.
C10_BlocksJoinedInOrder ==
    rendered # None =>
        /\ rendered[1] = BlocksFrom(matches, 1)
        /\ matches = <<>> => rendered[1] = <<>>

C10_Witness ==
    /\ rendered # None /\ Len(matches) = 2
    /\ matches[1].file # matches[2].file
    /\ matches[1].text # matches[2].text

\* The decimal text of a stored line plus one, as a number and not as a u64:
\* u64::MAX + 1 is 2^64 = 18446744073709551616.
PlusOneText(line) ==
    LET v == UnwrapOr(line, 0) IN
    IF v = U64Max THEN TwoTo64High \o Dec(TwoTo64Low) ELSE DecU64(v + 1)
ExpectedAnyHeader(m) ==
    UnwrapOr(m.file, <<>>) \o <<":">> \o PlusOneText(m.startLine)
    \o (IF UnwrapOr(m.startLine, 0) = UnwrapOr(m.endLine, 0) THEN <<>>
        ELSE <<"-">> \o PlusOneText(m.endLine))

\* C11: format_matches_as_text returns a text for every sequence of records,
\* fields absent or of another type read as "" and 0, line values up to
\* 2^64 - 1 included; it never aborts, and the line it prints is the stored
\* value plus one.
C11_TotalPlusOne ==
    /\ ~aborted
    /\ rendered # None =>
          rendered[1] =
              Join([i \in 1..Len(matches) |->
                      ExpectedAnyHeader(matches[i]) \o <<"\n">>
                      \o ExpectedBody(matches[i])],
                   <<"\n", "\n">>)

\* Call c is inside run_command, entered through run_ast_grep.
InRunAstGrep(c) ==
    pc[c] \in {"spawn", "write", "wait"} /\ req[c].op # "run_command"

\* C12: the argument list run_ast_grep passes to run_command is not empty,
\* starts with ast-grep and the subcommand; with a configuration path,
\* --config and the path come third and fourth, before the caller's flags;
\* without one nothing is inserted; the caller's flags follow unchanged.
C12_ArgvShape ==
    \A c \in Calls :
        InRunAstGrep(c) =>
            LET a == argv[c]
                flagsFrom == IF IsSome(config_path) THEN 5 ELSE 3
            IN  /\ Len(a) >= 2
                /\ a[1] = "ast-grep"
                /\ a[2] = SubcommandOf(req[c])
                /\ IsSome(config_path) =>
                      Len(a) >= 4 /\ a[3] = "--config" /\ a[4] = config_path[1]
                /\ SubSeq(a, flagsFrom, Len(a)) = FlagsOf(req[c])

DumpClassified(c) == Classified(c) /\ req[c].op = "dump_syntax_tree"
\* The classifier's verdict on the end of call c's child.
ClassifierAccepts(c) ==
    \/ child[c].status = Some(0)
    \/ ExitCodeOf(child[c].status) = 1 /\ ArrayShaped(Trim(StdoutOf(c)))

\* C13: dump_syntax_tree succeeds exactly when the classifier accepts the
\* child's exit code and stdout; its payload is then the trimmed stderr of
\* the call, whatever stdout holds; otherwise it returns the classifier's
\* failure and no payload.
C13_DumpReturnsStderr ==
    \A c \in Calls :
        DumpClassified(c) =>
            IF ClassifierAccepts(c)
            THEN result[c].ok /\ result[c].text = Trim(StderrOf(c))
            ELSE LET failure == CmdFailed(argv[c], ExitCodeOf(child[c].status),
                                          TrimmedOrPlaceholder(StderrOf(c)))
                 IN  result[c] = McpErr(0, ErrorText(failure), failure)

C13_Witness ==
    \E c \in Calls :
        /\ DumpClassified(c) /\ result[c].ok
        /\ child[c].status = Some(1)
        /\ Trim(StdoutOf(c)) # <<>>
        /\ Trim(StderrOf(c)) # <<>>
        /\ Trim(StdoutOf(c)) # Trim(StderrOf(c))

\* Call c was given stdin text and its write to the child's stdin ended so.
WriteEnded(c, outcome) == IsSome(stdin[c]) /\ child[c].write = outcome

\* C14: with stdin text, a broken pipe on the write is swallowed: the call
\* waits for the child and classifies its exit code and stdout as after a
\* complete write; any other write error ends the call with an I/O failure,
\* never Success and never ProcessFailed, and the child is not waited for.
C14_BrokenPipeSwallowed ==
    \A c \in Calls :
        /\ WriteEnded(c, "broken_pipe") =>
              /\ pc[c] \in {"wait", "done"}
              /\ Done(c) =>
                    /\ child[c].wait # "none"
                    /\ result[c] =
                          Alone(req[c], config_path, [child[c] EXCEPT !.write = "ok"])
                    /\ Classified(c) =>
                          IF ClassifierAccepts(c)
                          THEN result[c].run = CmdSuccess(StdoutOf(c), StderrOf(c))
                          ELSE result[c].run.tag = "Failed"
        /\ WriteEnded(c, "io_error") =>
              /\ Done(c)
              /\ result[c].run.tag = "Io"
              /\ ~result[c].ok
              /\ child[c].wait = "none"

C14_Witness ==
    \E c \in Calls :
        /\ WriteEnded(c, "broken_pipe")
        /\ Classified(c)
        /\ child[c].status = Some(1)
        /\ result[c].run.tag = "Ok"

\* C15: a call of run_command with stdin text, whose child reads all of its
\* stdin, writes its output and exits, eventually returns, whatever the sizes
\* of the input and of the output.
C15_CallReturns == (invoker = "write") ~> (invoker = "returned")

====
